---- MODULE Spec2Model ----
(***************************************************************************)
(* The in-memory vector store of Tool-Selection (VectorDB): a slice of     *)
(* entries kept sorted by ID under a sync.RWMutex, with Upsert, Get,       *)
(* Delete and the fork-join top-K Query.                                   *)
(*                                                                         *)
(* Representation choices                                                  *)
(*  - An ID (a Go string, ordered byte-wise) is modelled by its rank in    *)
(*    that order: 1 < 2 < ... ; the scenario's "A", "B", "C" are 1, 2, 3.  *)
(*  - A *Entry is modelled by the record it points to.  The program never  *)
(*    writes through an entry pointer after construction.                  *)
(*  - Go indices are 0-based; the model keeps Go's index values and reads  *)
(*    slot i of a slice s as s[i + 1].                                     *)
(*  - A float32 score v is modelled exactly by the rational q = v * |v|,   *)
(*    kept as [n, d] with d > 0 (q = n / d).  v |-> v * |v| is strictly    *)
(*    increasing, so <, >= and == on scores are those of the rationals.    *)
(*    The vectors of the model have small integer components and are never *)
(*    the zero vector, so no rounding, overflow or NaN arises.             *)
(***************************************************************************)
EXTENDS Integers, Sequences, FiniteSets, TLC

(***************************************************************************)
(* Bounds of the model.                                                    *)
(***************************************************************************)
\* Number of distinct IDs the callers use.
NumIDs == 4

\* Largest QueryOptions.TopK the callers pass.
MaxTopK == 3

\* querySlice's fan-out threshold.  The program's constant is 100; the model
\* scales it down so that stores of NumIDs entries are partitioned.
threshold == 3

\* Concurrent callers: the number of goroutines that call the store, the
\* number of IDs they use, and the fan-out threshold as scaled for them and
\* for the other small stores (so that a Query of a two-entry store already
\* forks a goroutine).
NumProcs == 2
NumConcIDs == 2
concThreshold == 1

\* IDs of the store whose queries may panic.
NumPanicIDs == 2

\* IDs (and the greatest length) of the slice a caller hands to NewVectorDB.
NumAliasIDs == 2

\* IDs (and the greatest size) of the store whose Query is followed call by
\* call of querySlice, with the fan-out threshold queryThreshold: 5 entries
\* split into 2 and 3, and the 3 into 1 and 2.
NumQueryIDs == 5

\* IDs of the store whose calls' progress under db.mu is followed.
NumLockIDs == 1

\* The greatest number of tools main hands to tools2DB, and tools2DB's
\* const threshold: 5 tools are split into 2 and 3, and the 3 into 1 and 2.
NumTools == 5
toolsThreshold == 2
queryThreshold == 2

IDs == 1..NumIDs

(***************************************************************************)
(* Entries                                                                 *)
(***************************************************************************)
\* The (Metadata, Vector) pairs callers attach to an ID.
Payloads ==
    { [Metadata |-> "Jeff",  Vector |-> <<1, 0>>],
      [Metadata |-> "Marc",  Vector |-> <<0, 1>>],
      [Metadata |-> "Grant", Vector |-> <<1, 1>>] }

\* type Entry struct { ID; Metadata; Vector }
Entry == { [ID |-> id, Metadata |-> p.Metadata, Vector |-> p.Vector] :
             id \in IDs, p \in Payloads }

\* The nil *Entry.
NilEntry == [ID |-> 0, Metadata |-> "", Vector |-> <<>>]

(***************************************************************************)
(* slices.Insert / slices.Delete as the store uses them                    *)
(***************************************************************************)
\* An insert that appends: v is placed after the last element, whatever i.
SlicesInsertAtEnd(s, i, v) == Append(s, v)

\* slices.Insert(s, i, v): v placed at index i, s[i:] shifted up by one.
SlicesInsert(s, i, v) ==
    SubSeq(s, 1, i) \o <<v>> \o SubSeq(s, i + 1, Len(s))

\* slices.Delete(s, i, j): s[i:j] removed.
SlicesDelete(s, i, j) ==
    SubSeq(s, 1, i) \o SubSeq(s, j + 1, Len(s))

(***************************************************************************)
(* VectorDB.search: slices.BinarySearchFunc over db.entries by ID          *)
(***************************************************************************)
\* The comparator closure of search.
searchCmp(e, searchID) ==
    IF e.ID < searchID THEN -1
    ELSE IF e.ID > searchID THEN 1
    ELSE 0

\* The loop of slices.BinarySearchFunc: for i < j { h := (i+j)/2 ... }.
RECURSIVE searchLoop(_, _, _, _)
searchLoop(x, id, i, j) ==
    IF i < j
    THEN LET h == (i + j) \div 2
         IN  IF searchCmp(x[h + 1], id) < 0
             THEN searchLoop(x, id, h + 1, j)
             ELSE searchLoop(x, id, i, h)
    ELSE i

\* search returns (position, found).
search(x, id) ==
    LET i == searchLoop(x, id, 0, Len(x))
    IN  [n  |-> i,
         ok |-> i < Len(x) /\ searchCmp(x[i + 1], id) = 0]

(***************************************************************************)
(* The store operations on the value of db.entries                         *)
(***************************************************************************)
\* Upsert that inserts without looking at ok: a present ID is inserted again.
UpsertEntriesAlwaysInsert(s, entry) ==
    SlicesInsert(s, search(s, entry.ID).n, entry)

\* Upsert that writes a present ID's entry to the first slot.
UpsertEntriesReplaceFirst(s, entry) ==
    LET r == search(s, entry.ID)
    IN  IF ~r.ok
        THEN SlicesInsert(s, r.n, entry)
        ELSE [s EXCEPT ![1] = entry]

\* The body of Upsert between Lock and Unlock.
UpsertEntries(s, entry) ==
    LET r == search(s, entry.ID)
    IN  IF ~r.ok
        THEN SlicesInsert(s, r.n, entry)
        ELSE [s EXCEPT ![r.n + 1] = entry]

\* Delete that removes the slot at the search position without looking at ok.
DeleteEntriesIgnoreOk(s, id) ==
    LET r == search(s, id)
    IN  IF r.n < Len(s) THEN SlicesDelete(s, r.n, r.n + 1) ELSE s

\* Delete that removes the slots from the search position to the end.
DeleteEntriesThroughEnd(s, id) ==
    LET r == search(s, id)
    IN  IF r.ok THEN SlicesDelete(s, r.n, Len(s)) ELSE s

\* The body of Delete between Lock and Unlock.
DeleteEntries(s, id) ==
    LET r == search(s, id)
    IN  IF r.ok THEN SlicesDelete(s, r.n, r.n + 1) ELSE s

\* Get that returns the slot at the search position without looking at ok.
GetResultIgnoreOk(s, id) ==
    LET r == search(s, id)
    IN  IF r.n < Len(s)
        THEN [entry |-> s[r.n + 1], found |-> TRUE]
        ELSE [entry |-> NilEntry, found |-> FALSE]

\* The body of Get between RLock and RUnlock: (entry, found).
GetResult(s, id) ==
    LET r == search(s, id)
    IN  IF ~r.ok
        THEN [entry |-> NilEntry, found |-> FALSE]
        ELSE [entry |-> s[r.n + 1], found |-> TRUE]

(***************************************************************************)
(* Scores and the two distance metrics                                     *)
(***************************************************************************)
\* x * |x|
SignedSquare(x) == IF x >= 0 THEN x * x ELSE -(x * x)

\* The float32 with integer value k.
ScoreOf(k) == [n |-> SignedSquare(k), d |-> 1]

\* a < b, a > b, a >= b on float32 scores.
ScoreLess(a, b) == a.n * b.d < b.n * a.d
ScoreGreater(a, b) == a.n * b.d > b.n * a.d
ScoreGeq(a, b) == a.n * b.d >= b.n * a.d

\* v[k].  Past the end of v the read panics (DistancePanics) and its value,
\* 0 here, is the value of no score the program computes.
At(v, k) == IF k <= Len(v) THEN v[k] ELSE 0

\* for k := range a { acc += a[k] * b[k] }, over the first k indices of a.
RECURSIVE SumProducts(_, _, _)
SumProducts(a, b, k) ==
    IF k = 0 THEN 0 ELSE SumProducts(a, b, k - 1) + At(a, k) * At(b, k)

\* A Distance that reads no index out of range.
DistancePanicsNever(a, b) == FALSE

\* Distance panics (index out of range at b[k]) when a is longer than b, for
\* both metrics; when a is shorter it scores a against the prefix of b.
DistancePanics(a, b) == Len(a) > Len(b)

\* DotProduct.Distance
DotProductDistance(a, b) ==
    [n |-> SignedSquare(SumProducts(a, b, Len(a))), d |-> 1]

\* CosineSimilarity.Distance: dotProduct / (sqrt(magnitudeA) * sqrt(magnitudeB)),
\* all three sums taken over the indices of a.
CosineSimilarityDistance(a, b) ==
    LET dotProduct == SumProducts(a, b, Len(a))
        magnitudeA == SumProducts(a, a, Len(a))
        magnitudeB == SumProducts(b, b, Len(a))
    IN  [n |-> SignedSquare(dotProduct), d |-> magnitudeA * magnitudeB]

Metrics == {"DotProduct", "CosineSimilarity"}

\* DistanceMetric.Distance
Distance(metric, a, b) ==
    IF metric = "DotProduct"
    THEN DotProductDistance(a, b)
    ELSE CosineSimilarityDistance(a, b)

\* DistanceMetric.BiggerIsCloser
BiggerIsCloser(metric) == metric = "DotProduct"

(***************************************************************************)
(* Query options                                                           *)
(***************************************************************************)
NoPredicate == "nil"

\* The predicates callers pass: none, or the one of TestVectorDB, which
\* keeps the entries whose metadata name is not "Grant".
Predicates == {NoPredicate, "NotGrant"}

\* o.Predicate(e), for a non-nil predicate.
PredicateHolds(pred, e) == e.Metadata # "Grant"

\* A predicate that keeps every entry.
PredicateRejectsNone(o, e) == FALSE

\* if o.Predicate != nil && !o.Predicate(e): the entry is skipped.
PredicateRejects(o, e) ==
    o.Predicate # NoPredicate /\ ~PredicateHolds(o.Predicate, e)

\* QueryOptions.MinimumScore values the callers pass: 0 and 1.
MinimumScores == {ScoreOf(0), ScoreOf(1)}

\* Query vectors the callers pass.
QueryVectors == { <<1, 0>> }

\* type QueryOptions struct { TopK; MinimumScore; Predicate }
QueryOptions ==
    [TopK : 0..MaxTopK, MinimumScore : MinimumScores, Predicate : Predicates]

(***************************************************************************)
(* querySlice: the leaf loop                                               *)
(***************************************************************************)
\* The comparator closure the leaf hands to slices.BinarySearchFunc.
leafCmp(metric, a, b) ==
    LET n == IF ScoreLess(a.Score, b.Score) THEN 1
             ELSE IF ScoreGreater(a.Score, b.Score) THEN -1
             ELSE 0
    IN  IF BiggerIsCloser(metric) THEN -n ELSE n

\* The loop of slices.BinarySearchFunc over results.
RECURSIVE insertLoop(_, _, _, _, _)
insertLoop(metric, results, qr, i, j) ==
    IF i < j
    THEN LET h == (i + j) \div 2
         IN  IF leafCmp(metric, results[h + 1], qr) < 0
             THEN insertLoop(metric, results, qr, h + 1, j)
             ELSE insertLoop(metric, results, qr, i, h)
    ELSE i

\* cap(results): results is made with capacity o.TopK and never holds more
\* than o.TopK elements, so no insert reallocates it.
CapResults(o) == o.TopK

\* One iteration of the leaf loop: results after entry e.
LeafStep(metric, results, e, vector, o) ==
    IF PredicateRejects(o, e)
    THEN results
    ELSE LET score == Distance(metric, vector, e.Vector)
         IN  IF ScoreLess(score, o.MinimumScore) THEN results
             ELSE LET qr == [Score |-> score, Entry |-> e]
                      n  == insertLoop(metric, results, qr, 0, Len(results))
                  IN  IF n = CapResults(o)
                      THEN results
                      ELSE LET kept == IF Len(results) = o.TopK
                                       THEN SlicesDelete(results, Len(results) - 1,
                                                         Len(results))
                                       ELSE results
                           IN  SlicesInsert(kept, n, qr)

\* for _, e := range entries { ... }, from entry k on.
RECURSIVE LeafLoop(_, _, _, _, _, _)
LeafLoop(metric, results, entries, k, vector, o) ==
    IF k > Len(entries)
    THEN results
    ELSE LeafLoop(metric, LeafStep(metric, results, entries[k], vector, o),
                  entries, k + 1, vector, o)

\* The sequential part of querySlice (len(entries) <= threshold).
Leaf(metric, entries, vector, o) ==
    LeafLoop(metric, <<>>, entries, 1, vector, o)

(***************************************************************************)
(* querySlice: the merge and the recursion                                 *)
(***************************************************************************)
\* for len(results) < resultCount { switch ... }
RECURSIVE MergeLoop(_, _, _, _)
MergeLoop(results, leftResult, rightResult, resultCount) ==
    IF Len(results) < resultCount
    THEN IF Len(leftResult) = 0
         THEN MergeLoop(Append(results, Head(rightResult)), leftResult,
                        Tail(rightResult), resultCount)
         ELSE IF Len(rightResult) = 0
         THEN MergeLoop(Append(results, Head(leftResult)), Tail(leftResult),
                        rightResult, resultCount)
         ELSE IF ScoreGeq(Head(leftResult).Score, Head(rightResult).Score)
         THEN MergeLoop(Append(results, Head(leftResult)), Tail(leftResult),
                        rightResult, resultCount)
         ELSE MergeLoop(Append(results, Head(rightResult)), leftResult,
                        Tail(rightResult), resultCount)
    ELSE results

\* A merge that is handed the left half's results for both halves.
MergeLeftWithItself(leftResult, rightResult) ==
    MergeLoop(<<>>, leftResult, leftResult, 2 * Len(leftResult))

\* A merge whose resultCount counts the left half's results only.
MergeCountsLeftOnly(leftResult, rightResult) ==
    MergeLoop(<<>>, leftResult, rightResult, Len(leftResult))

\* The merge of the two halves' results, after wg.Wait().
Merge(leftResult, rightResult) ==
    MergeLoop(<<>>, leftResult, rightResult, Len(leftResult) + Len(rightResult))

\* querySlice with fan-out threshold th.
RECURSIVE querySliceT(_, _, _, _, _)
querySliceT(metric, entries, vector, o, th) ==
    IF Len(entries) > th
    THEN LET half        == Len(entries) \div 2
             leftResult  == querySliceT(metric, SubSeq(entries, 1, half), vector, o, th)
             rightResult == querySliceT(metric, SubSeq(entries, half + 1, Len(entries)),
                                        vector, o, th)
         IN  Merge(leftResult, rightResult)
    ELSE Leaf(metric, entries, vector, o)

\* db.querySlice(entries, vector, &o)
querySlice(metric, entries, vector, o) ==
    querySliceT(metric, entries, vector, o, threshold)

\* The leaf panics: in make([]QueryResult, 0, o.TopK) when o.TopK is negative,
\* or in the Distance of an entry the predicate lets through (the loop leaves
\* no entry out, so every such entry is scored unless an earlier one panics).
LeafPanics(entries, vector, o) ==
    \/ o.TopK < 0
    \/ \E k \in 1..Len(entries) :
          /\ ~PredicateRejects(o, entries[k])
          /\ DistancePanics(vector, entries[k].Vector)

\* querySlice panics when one of its leaves does: a panic on the calling
\* goroutine unwinds the Query, one on a spawned goroutine ends the program.
RECURSIVE querySlicePanics(_, _, _, _)
querySlicePanics(entries, vector, o, th) ==
    IF Len(entries) > th
    THEN LET half == Len(entries) \div 2
         IN  \/ querySlicePanics(SubSeq(entries, 1, half), vector, o, th)
             \/ querySlicePanics(SubSeq(entries, half + 1, Len(entries)), vector, o, th)
    ELSE LeafPanics(entries, vector, o)

(***************************************************************************)
(* State                                                                   *)
(***************************************************************************)
VARIABLES
    entries,         \* db.entries
    distanceMetric,  \* db.distanceMetric
    written,         \* history: per ID, the entry last upserted and not deleted since
    last,            \* the call that returned last: arguments, db.entries before it, returns
    mu,              \* db.mu
    pc,              \* per calling goroutine: where it is in its call
    frame,           \* per calling goroutine: arguments and locals of its call
    committed,       \* history: db.entries as the last completed mutation left it
    hist,            \* history: per goroutine, the values of committed while it held the read lock
    callerEntries,   \* the slice the caller handed to NewVectorDB, as the caller holds it
    calls,           \* the querySlice calls of the running Query, per range of db.entries
    visits,          \* history: per position of the slice a fork-join recursion runs on, its leaf iterations on it
    tools            \* the tools main hands to tools2DB, by name

vars ==
    <<entries, distanceMetric, written, last, mu, pc, frame, committed, hist,
      callerEntries, calls, visits, tools>>

\* The state of the concurrent callers.
concVars == <<mu, pc, frame, committed, hist>>

Procs == 1..NumProcs

\* sync.RWMutex: writer is the goroutine that holds the writer mutex (0: none),
\* waiting for the readers to leave or inside its critical section; readers
\* hold the read lock; rwait are blocked in RLock behind the writer.
MuFree == [writer |-> 0, readers |-> {}, rwait |-> {}]

\* A slot of a snapshot the Query has not read yet.
Unread == [ID |-> -1, Metadata |-> "", Vector |-> <<>>]

NoOptions == [TopK |-> 0, MinimumScore |-> ScoreOf(0), Predicate |-> NoPredicate]

\* The caller's slice: array is its backing array (its length the capacity),
\* shared whether db.entries still points into that array, before the array
\* as it was before the last call (history).  NewVectorDB(metric, nil) shares
\* nothing.
NoCallerEntries == [array |-> <<>>, shared |-> FALSE, before |-> <<>>]

\* The locals of a querySlice call that has not been made: pc is where the
\* call is, k the next entry of the leaf loop, wg the WaitGroup's counter, go
\* where the goroutine the call spawns is ("none": not spawned, "running": in
\* its call of querySlice, "assigned": leftResult written, "done": ended).
\* The calls of tools2DB, which forks and joins the same way, have these
\* locals too; s is the slice header the Upsert of a leaf works on.
NoSliceCall ==
    [pc |-> "none", k |-> 0, results |-> <<>>, leftResult |-> <<>>,
     rightResult |-> <<>>, resultCount |-> 0, wg |-> 0, go |-> "none", s |-> <<>>]

\* No querySlice call is in progress.  A call is named by the range <<lo, hi>>
\* of db.entries it is made on (entries[lo-1:hi] in the program's indices;
\* hi = lo - 1 is the empty slice).
NoCalls == [r \in {} |-> NoSliceCall]

\* No Query has entered querySlice.
NoVisits == <<>>

\* main has listed no tools.
NoTools == <<>>

\* A record of a returned call; the fields a call does not have keep these
\* values.  panicked: the call did not return, it panicked.
NoCall ==
    [op |-> "NewVectorDB", entry |-> NilEntry, id |-> 0, vector |-> <<>>,
     o |-> NoOptions, before |-> <<>>, found |-> FALSE, ret |-> NilEntry,
     results |-> <<>>, panicked |-> FALSE]

\* The locals of a goroutine that is in no call: s is the slice header a
\* mutation works on, seen the entries a Query has read, size the length a
\* size read returns.
NoFrame ==
    [op |-> "", entry |-> NilEntry, id |-> 0, vector |-> <<>>, o |-> NoOptions,
     s |-> <<>>, seen |-> <<>>, found |-> FALSE, ret |-> NilEntry, results |-> <<>>,
     size |-> 0]

\* No goroutine is in a call.
ConcIdle ==
    /\ mu = MuFree
    /\ pc = [p \in Procs |-> "idle"]
    /\ frame = [p \in Procs |-> NoFrame]
    /\ committed = <<>>
    /\ hist = [p \in Procs |-> {}]

\* NewVectorDB(distanceMetric, nil), as main and TestVectorDB create the store.
Init ==
    /\ entries = <<>>
    /\ distanceMetric \in Metrics
    /\ written = [id \in IDs |-> NilEntry]
    /\ last = NoCall
    /\ callerEntries = NoCallerEntries
    /\ calls = NoCalls
    /\ visits = NoVisits
    /\ tools = NoTools
    /\ ConcIdle

(***************************************************************************)
(* The calls, each run alone from Lock/RLock to Unlock/RUnlock             *)
(***************************************************************************)
\* db.Upsert(entry)
Upsert(entry) ==
    /\ entries' = UpsertEntries(entries, entry)
    /\ written' = [written EXCEPT ![entry.ID] = entry]
    /\ last' = [NoCall EXCEPT !.op = "Upsert", !.entry = entry, !.id = entry.ID,
                              !.before = entries]
    /\ UNCHANGED <<distanceMetric, callerEntries, calls, visits, tools, concVars>>

\* db.Delete(id)
Delete(id) ==
    /\ entries' = DeleteEntries(entries, id)
    /\ written' = [written EXCEPT ![id] = NilEntry]
    /\ last' = [NoCall EXCEPT !.op = "Delete", !.id = id, !.before = entries]
    /\ UNCHANGED <<distanceMetric, callerEntries, calls, visits, tools, concVars>>

\* db.Get(id)
Get(id) ==
    /\ last' = [NoCall EXCEPT !.op = "Get", !.id = id, !.before = entries,
                              !.found = GetResult(entries, id).found,
                              !.ret = GetResult(entries, id).entry]
    /\ UNCHANGED <<entries, distanceMetric, callerEntries, calls, visits, tools, written, concVars>>

\* A Query whose leaf deletes the last element of db.entries, not of results.
QueryDeletingFromEntries(vector, o) ==
    /\ entries' = SlicesDelete(entries, Len(entries) - 1, Len(entries))
    /\ last' = [NoCall EXCEPT !.op = "Query", !.vector = vector, !.o = o,
                              !.before = entries,
                              !.results = querySlice(distanceMetric, entries, vector, o)]
    /\ UNCHANGED <<distanceMetric, callerEntries, calls, visits, tools, written, concVars>>

\* db.Query(vector, o)
Query(vector, o) ==
    /\ last' = [NoCall EXCEPT !.op = "Query", !.vector = vector, !.o = o,
                              !.before = entries,
                              !.results = querySlice(distanceMetric, entries, vector, o)]
    /\ UNCHANGED <<entries, distanceMetric, callerEntries, calls, visits, tools, written, concVars>>

Next ==
    \/ \E entry \in Entry : Upsert(entry)
    \/ \E id \in IDs : Delete(id)
    \/ \E id \in IDs : Get(id)
    \/ \E vector \in QueryVectors, o \in QueryOptions : Query(vector, o)

Spec == Init /\ [][Next]_vars

(***************************************************************************)
(* Calls with arguments outside the metric's and the leaf's preconditions  *)
(***************************************************************************)
\* Entries whose vectors have different lengths.
PanicPayloads ==
    { [Metadata |-> "Jeff",  Vector |-> <<1, 0>>],
      [Metadata |-> "Marc",  Vector |-> <<1, 1, 0>>],
      [Metadata |-> "Grant", Vector |-> <<0, 1>>] }

PanicEntry == { [ID |-> id, Metadata |-> p.Metadata, Vector |-> p.Vector] :
                  id \in 1..NumPanicIDs, p \in PanicPayloads }

\* Query vectors of length 2 and 3, and TopK below, at and above zero.
PanicQueryVectors == { <<1, 0>>, <<1, 0, 0>> }

PanicQueryOptions ==
    [TopK : {-1, 0, 1}, MinimumScore : MinimumScores, Predicate : Predicates]

\* db.Upsert(entry), while the program runs (no call follows a panic).
UpsertRunning(entry) ==
    /\ ~last.panicked
    /\ Upsert(entry)

\* db.Query(vector, o): it returns the result of querySlice, or panics.
QueryOrPanic(vector, o) ==
    /\ ~last.panicked
    /\ last' = IF querySlicePanics(entries, vector, o, concThreshold)
               THEN [NoCall EXCEPT !.op = "Query", !.vector = vector, !.o = o,
                                   !.before = entries, !.panicked = TRUE]
               ELSE [NoCall EXCEPT !.op = "Query", !.vector = vector, !.o = o,
                                   !.before = entries,
                                   !.results = querySliceT(distanceMetric, entries,
                                                           vector, o, concThreshold)]
    /\ UNCHANGED <<entries, distanceMetric, callerEntries, calls, visits, tools, written, concVars>>

NextPanic ==
    \/ \E entry \in PanicEntry : UpsertRunning(entry)
    \/ \E vector \in PanicQueryVectors, o \in PanicQueryOptions :
          QueryOrPanic(vector, o)

SpecPanic == Init /\ [][NextPanic]_vars

(***************************************************************************)
(* A store made from a slice of the caller                                 *)
(***************************************************************************)
AliasEntry == { e \in Entry : e.ID <= NumAliasIDs /\ e.Metadata # "Grant" }

\* The slices a caller may hand to NewVectorDB: sorted by ID, as its comment
\* demands, with len = cap.
CallerSlices ==
    { s \in UNION { [1..n -> AliasEntry] : n \in 0..NumAliasIDs } :
        \A i \in 1..(Len(s) - 1) : s[i].ID < s[i + 1].ID }

\* The queries of this store: all of its entries, no cutoff, no predicate.
AliasQueryOptions ==
    { o \in QueryOptions : /\ o.TopK = NumAliasIDs
                           /\ o.MinimumScore = ScoreOf(0)
                           /\ o.Predicate = NoPredicate }

\* db := NewVectorDB(distanceMetric, entries): db.entries is the caller's
\* slice header, over the caller's backing array.
InitAlias ==
    /\ distanceMetric = "CosineSimilarity"
    /\ callerEntries \in { [array |-> s, shared |-> TRUE, before |-> s] :
                             s \in CallerSlices }
    /\ entries = callerEntries.array
    /\ written = [id \in IDs |->
                    IF id \in { entries[i].ID : i \in 1..Len(entries) }
                    THEN CHOOSE e \in { entries[i] : i \in 1..Len(entries) } : e.ID = id
                    ELSE NilEntry]
    /\ last = NoCall
    /\ calls = NoCalls
    /\ visits = NoVisits
    /\ tools = NoTools
    /\ ConcIdle

\* The caller's code: entries[i] = e on the slice it handed over.  The slot
\* is a slot of db.entries while the array is shared and i is within
\* len(db.entries).
CallerWrite(i, e) ==
    /\ i \in 1..Len(callerEntries.array)
    /\ callerEntries' = [callerEntries EXCEPT !.array[i] = e,
                                              !.before = callerEntries.array]
    /\ entries' = IF callerEntries.shared /\ i <= Len(entries)
                  THEN [entries EXCEPT ![i] = e]
                  ELSE entries
    /\ last' = [NoCall EXCEPT !.op = "CallerWrite", !.entry = e, !.before = entries]
    /\ UNCHANGED <<distanceMetric, written, calls, visits, tools, concVars>>

\* Upsert writes in place when the ID is present, and when slices.Insert
\* finds spare capacity (len(db.entries) < cap): the array stays shared.
\* Otherwise slices.Insert allocates a new array.
UpsertInPlace(c, s, entry) ==
    c.shared /\ (search(s, entry.ID).ok \/ Len(s) < Len(c.array))

\* The caller's array after db.Upsert(entry) on db.entries = s.
ArrayAfterUpsert(c, s, entry) ==
    IF UpsertInPlace(c, s, entry)
    THEN LET t == UpsertEntries(s, entry)
         IN  t \o SubSeq(c.array, Len(t) + 1, Len(c.array))
    ELSE c.array

\* The caller's array after db.Delete(id) on db.entries = s: slices.Delete
\* shifts in place; the slot it vacates holds tail.
ArrayAfterDelete(c, s, id, tail) ==
    IF c.shared /\ search(s, id).ok
    THEN DeleteEntries(s, id) \o <<tail>> \o SubSeq(c.array, Len(s) + 1, Len(c.array))
    ELSE c.array

\* db.Upsert(entry) on the store made from the caller's slice.
UpsertShared(entry) ==
    /\ Len(entries) <= NumAliasIDs
    /\ entries' = UpsertEntries(entries, entry)
    /\ written' = [written EXCEPT ![entry.ID] = entry]
    /\ callerEntries' =
          [array  |-> ArrayAfterUpsert(callerEntries, entries, entry),
           shared |-> UpsertInPlace(callerEntries, entries, entry),
           before |-> callerEntries.array]
    /\ last' = [NoCall EXCEPT !.op = "Upsert", !.entry = entry, !.id = entry.ID,
                              !.before = entries]
    /\ UNCHANGED <<distanceMetric, calls, visits, tools, concVars>>

\* db.Delete(id) on the store made from the caller's slice.  The vacated
\* slot is zeroed (slices.Delete of Go 1.22) or keeps the old last element
\* (Go 1.21).
DeleteShared(id) ==
    /\ entries' = DeleteEntries(entries, id)
    /\ written' = [written EXCEPT ![id] = NilEntry]
    /\ \E tail \in {NilEntry} \cup { entries[i] : i \in {Len(entries)} \ {0} } :
          callerEntries' =
              [callerEntries EXCEPT
                  !.array = ArrayAfterDelete(callerEntries, entries, id, tail),
                  !.before = callerEntries.array]
    /\ last' = [NoCall EXCEPT !.op = "Delete", !.id = id, !.before = entries]
    /\ UNCHANGED <<distanceMetric, calls, visits, tools, concVars>>

NextAlias ==
    \/ \E i \in 1..NumAliasIDs, e \in AliasEntry : CallerWrite(i, e)
    \/ \E entry \in AliasEntry : UpsertShared(entry)
    \/ \E id \in 1..NumAliasIDs : DeleteShared(id)
    \/ \E id \in 1..NumAliasIDs : Get(id)
    \/ \E vector \in QueryVectors, o \in AliasQueryOptions : Query(vector, o)

SpecAlias == InitAlias /\ [][NextAlias]_vars

(***************************************************************************)
(* Concurrent callers: the calls step by step under db.mu                  *)
(***************************************************************************)
\* The entries the concurrent callers upsert, and the queries they make.
ConcEntry == { e \in Entry : e.ID <= NumConcIDs /\ e.Metadata # "Grant" }

ConcIDs == 1..NumConcIDs

ConcQueryOptions ==
    { [TopK |-> 1, MinimumScore |-> ScoreOf(0), Predicate |-> NoPredicate] }

\* A writer mutex that any goroutine may take at any time.
WriterMutexAlwaysFree(m) == TRUE

\* The writer mutex of db.mu is held by no goroutine.
WriterMutexFree(m) == m.writer = 0

\* An RLock that does not look at the writer.
ReaderEntersAtOnce(m) == TRUE

\* RLock lets a reader in unless a writer holds the writer mutex (inside its
\* critical section, or waiting for the readers to leave).
ReaderMayEnter(m) == m.writer = 0

\* A Lock that does not wait for the readers.
WriterEntersAtOnce(m) == TRUE

\* Lock lets the writer in once the readers that held the lock have left.
WriterMayEnter(m) == m.readers = {}

\* The first statement of a call after its lock is taken.
BodyOf(op) ==
    IF op = "Upsert" THEN "UpsertBody"
    ELSE IF op = "Delete" THEN "DeleteBody"
    ELSE IF op = "Get" THEN "GetBody"
    ELSE IF op = "Size" THEN "SizeBody"
    ELSE "QueryBody"

\* db.entries as seen through the old slice header while slices.Insert works
\* in place (spare capacity): s[i:] is shifted up, the last element leaves the
\* view, v is written at i.  An append at the end changes nothing in view.
InsertInPlaceView(s, i, v) ==
    IF i = Len(s)
    THEN s
    ELSE SubSeq(s, 1, i) \o <<v>> \o SubSeq(s, i + 1, Len(s) - 1)

\* db.entries as seen through the old slice header once slices.Delete has
\* shifted s[i+1:] down: the last element is there twice.
DeleteInPlaceView(s, i) ==
    SubSeq(s, 1, i) \o SubSeq(s, i + 2, Len(s)) \o <<s[Len(s)]>>

\* The readers that hold the lock learn of a completed mutation.
Commit(s) ==
    /\ committed' = s
    /\ hist' = [q \in Procs |-> IF q \in mu.readers THEN hist[q] \cup {s} ELSE hist[q]]

\* The leaves of querySlice over positions lo..hi with fan-out threshold th.
RECURSIVE LeafRanges(_, _, _)
LeafRanges(lo, hi, th) ==
    IF hi - lo + 1 > th
    THEN LET half == (hi - lo + 1) \div 2
         IN  LeafRanges(lo, lo + half - 1, th) \cup LeafRanges(lo + half, hi, th)
    ELSE { <<lo, hi>> }

\* The positions some goroutine of the query reads next: in each leaf, the
\* first position not read yet.
Readable(seen, th) ==
    { i \in 1..Len(seen) :
        /\ seen[i] = Unread
        /\ \E r \in LeafRanges(1, Len(seen), th) :
              /\ r[1] <= i /\ i <= r[2]
              /\ \A j \in r[1]..(i - 1) : seen[j] # Unread }

\* db.Upsert(entry) is called: db.mu.Lock() is next.
CallUpsert(p, entry) ==
    /\ pc[p] = "idle"
    /\ pc' = [pc EXCEPT ![p] = "LockMutex"]
    /\ frame' = [frame EXCEPT ![p] = [NoFrame EXCEPT !.op = "Upsert", !.entry = entry,
                                                     !.id = entry.ID]]
    /\ UNCHANGED <<entries, distanceMetric, callerEntries, calls, visits, tools, written, last, mu, committed, hist>>

\* db.Delete(id) is called: db.mu.Lock() is next.
CallDelete(p, id) ==
    /\ pc[p] = "idle"
    /\ pc' = [pc EXCEPT ![p] = "LockMutex"]
    /\ frame' = [frame EXCEPT ![p] = [NoFrame EXCEPT !.op = "Delete", !.id = id]]
    /\ UNCHANGED <<entries, distanceMetric, callerEntries, calls, visits, tools, written, last, mu, committed, hist>>

\* db.mu.Lock() takes the writer mutex, which keeps the other writers out and,
\* from now on, the new readers.
LockMutex(p) ==
    /\ pc[p] = "LockMutex"
    /\ WriterMutexFree(mu)
    /\ mu' = [mu EXCEPT !.writer = p]
    /\ pc' = [pc EXCEPT ![p] = "Lock"]
    /\ UNCHANGED <<entries, distanceMetric, callerEntries, calls, visits, tools, written, last, frame, committed, hist>>

\* db.mu.Lock() returns: the writer enters its critical section.
WriterEnter(p) ==
    /\ pc[p] = "Lock"
    /\ WriterMayEnter(mu)
    /\ pc' = [pc EXCEPT ![p] = BodyOf(frame[p].op)]
    /\ UNCHANGED <<entries, distanceMetric, callerEntries, calls, visits, tools, written, last, mu, frame, committed, hist>>

\* Upsert: the search, then the overwrite of a present ID (one pointer store)
\* or the first half of slices.Insert (a new array, or the shift in place).
UpsertSearch(p) ==
    /\ pc[p] = "UpsertBody"
    /\ LET r == search(entries, frame[p].entry.ID)
       IN  IF r.ok
           THEN /\ entries' = UpsertEntries(entries, frame[p].entry)
                /\ Commit(entries')
                /\ pc' = [pc EXCEPT ![p] = "Unlock"]
                /\ UNCHANGED frame
           ELSE /\ entries' \in { entries,
                                  InsertInPlaceView(entries, r.n, frame[p].entry) }
                /\ frame' = [frame EXCEPT ![p].s = entries]
                /\ pc' = [pc EXCEPT ![p] = "UpsertAssign"]
                /\ UNCHANGED <<committed, hist>>
    /\ UNCHANGED <<distanceMetric, callerEntries, calls, visits, tools, written, last, mu>>

\* Upsert: db.entries = (the slice slices.Insert returns).
UpsertAssign(p) ==
    /\ pc[p] = "UpsertAssign"
    /\ entries' = UpsertEntries(frame[p].s, frame[p].entry)
    /\ Commit(entries')
    /\ pc' = [pc EXCEPT ![p] = "Unlock"]
    /\ UNCHANGED <<distanceMetric, callerEntries, calls, visits, tools, written, last, mu, frame>>

\* Delete: the search, then the shift of slices.Delete (always in place).
DeleteSearch(p) ==
    /\ pc[p] = "DeleteBody"
    /\ LET r == search(entries, frame[p].id)
       IN  IF r.ok
           THEN /\ entries' = DeleteInPlaceView(entries, r.n)
                /\ frame' = [frame EXCEPT ![p].s = entries]
                /\ pc' = [pc EXCEPT ![p] = "DeleteAssign"]
           ELSE /\ pc' = [pc EXCEPT ![p] = "Unlock"]
                /\ UNCHANGED <<entries, frame>>
    /\ UNCHANGED <<distanceMetric, callerEntries, calls, visits, tools, written, last, mu, committed, hist>>

\* Delete: db.entries = (the slice slices.Delete returns).
DeleteAssign(p) ==
    /\ pc[p] = "DeleteAssign"
    /\ entries' = DeleteEntries(frame[p].s, frame[p].id)
    /\ Commit(entries')
    /\ pc' = [pc EXCEPT ![p] = "Unlock"]
    /\ UNCHANGED <<distanceMetric, callerEntries, calls, visits, tools, written, last, mu, frame>>

\* defer db.mu.Unlock(): the readers blocked in RLock are let in, the writer
\* mutex is released, and the call returns.
Unlock(p) ==
    /\ pc[p] = "Unlock"
    /\ mu' = [writer |-> 0, readers |-> mu.readers \cup mu.rwait, rwait |-> {}]
    /\ pc' = [q \in Procs |->
                IF q = p THEN "idle"
                ELSE IF q \in mu.rwait THEN BodyOf(frame[q].op)
                ELSE pc[q]]
    /\ frame' = [frame EXCEPT ![p] = NoFrame]
    /\ hist' = [q \in Procs |-> IF q \in mu.rwait THEN {committed} ELSE hist[q]]
    /\ UNCHANGED <<entries, distanceMetric, callerEntries, calls, visits, tools, written, last, committed>>

\* db.mu.RLock() of a call whose locals are f: the reader enters, or blocks
\* behind the writer.
RLock(p, f) ==
    /\ pc[p] = "idle"
    /\ frame' = [frame EXCEPT ![p] = f]
    /\ IF ReaderMayEnter(mu)
       THEN /\ mu' = [mu EXCEPT !.readers = @ \cup {p}]
            /\ pc' = [pc EXCEPT ![p] = BodyOf(f.op)]
            /\ hist' = [hist EXCEPT ![p] = {committed}]
       ELSE /\ mu' = [mu EXCEPT !.rwait = @ \cup {p}]
            /\ pc' = [pc EXCEPT ![p] = "RLock"]
            /\ UNCHANGED hist
    /\ UNCHANGED <<entries, distanceMetric, callerEntries, calls, visits, tools, written, last, committed>>

\* db.Get(id)
CallGet(p, id) ==
    RLock(p, [NoFrame EXCEPT !.op = "Get", !.id = id])

\* db.Query(vector, o)
CallQuery(p, vector, o) ==
    RLock(p, [NoFrame EXCEPT !.op = "Query", !.vector = vector, !.o = o])

\* getAllTools: db.mu.RLock() before the size read.
CallSize(p) ==
    RLock(p, [NoFrame EXCEPT !.op = "Size"])

\* getAllTools: len(db.entries).
SizeBody(p) ==
    /\ pc[p] = "SizeBody"
    /\ frame' = [frame EXCEPT ![p].size = Len(entries)]
    /\ pc' = [pc EXCEPT ![p] = "RUnlock"]
    /\ UNCHANGED <<entries, distanceMetric, callerEntries, calls, visits, tools, written, last, mu, committed, hist>>

\* Get: the search and the read of the slot.
GetBody(p) ==
    /\ pc[p] = "GetBody"
    /\ frame' = [frame EXCEPT ![p].found = GetResult(entries, frame[p].id).found,
                              ![p].ret = GetResult(entries, frame[p].id).entry]
    /\ pc' = [pc EXCEPT ![p] = "RUnlock"]
    /\ UNCHANGED <<entries, distanceMetric, callerEntries, calls, visits, tools, written, last, mu, committed, hist>>

\* Query: db.entries is evaluated once (the slice header), as the argument of
\* querySlice.
QuerySnapshot(p) ==
    /\ pc[p] = "QueryBody"
    /\ frame' = [frame EXCEPT ![p].seen = [i \in 1..Len(entries) |-> Unread]]
    /\ pc' = [pc EXCEPT ![p] = "QueryRead"]
    /\ UNCHANGED <<entries, distanceMetric, callerEntries, calls, visits, tools, written, last, mu, committed, hist>>

\* Query: a goroutine of the query reads the next entry of its leaf (a slot
\* beyond the present length holds nil).
QueryRead(p, i) ==
    /\ pc[p] = "QueryRead"
    /\ i \in Readable(frame[p].seen, concThreshold)
    /\ frame' = [frame EXCEPT ![p].seen[i] =
                    IF i <= Len(entries) THEN entries[i] ELSE NilEntry]
    /\ UNCHANGED <<entries, distanceMetric, callerEntries, calls, visits, tools, written, last, mu, pc, committed, hist>>

\* Query: every leaf is done and the halves are merged.  (Scoring a nil entry
\* dereferences nil: the program ends and there is no result.)
QueryMerge(p) ==
    /\ pc[p] = "QueryRead"
    /\ Readable(frame[p].seen, concThreshold) = {}
    /\ frame' = [frame EXCEPT ![p].results =
                    IF \E i \in 1..Len(frame[p].seen) : frame[p].seen[i] = NilEntry
                    THEN <<>>
                    ELSE querySliceT(distanceMetric, frame[p].seen, frame[p].vector,
                                     frame[p].o, concThreshold)]
    /\ pc' = [pc EXCEPT ![p] = "RUnlock"]
    /\ UNCHANGED <<entries, distanceMetric, callerEntries, calls, visits, tools, written, last, mu, committed, hist>>

\* defer db.mu.RUnlock(): the call returns.
RUnlock(p) ==
    /\ pc[p] = "RUnlock"
    /\ mu' = [mu EXCEPT !.readers = @ \ {p}]
    /\ pc' = [pc EXCEPT ![p] = "idle"]
    /\ frame' = [frame EXCEPT ![p] = NoFrame]
    /\ hist' = [hist EXCEPT ![p] = {}]
    /\ UNCHANGED <<entries, distanceMetric, callerEntries, calls, visits, tools, written, last, committed>>

\* main: NewVectorDB(CosineSimilarity{}, nil)
InitConc ==
    /\ entries = <<>>
    /\ distanceMetric = "CosineSimilarity"
    /\ written = [id \in IDs |-> NilEntry]
    /\ last = NoCall
    /\ callerEntries = NoCallerEntries
    /\ calls = NoCalls
    /\ visits = NoVisits
    /\ tools = NoTools
    /\ ConcIdle

NextConc ==
    \E p \in Procs :
        \/ \E entry \in ConcEntry : CallUpsert(p, entry)
        \/ \E id \in ConcIDs : CallDelete(p, id)
        \/ LockMutex(p)
        \/ WriterEnter(p)
        \/ UpsertSearch(p)
        \/ UpsertAssign(p)
        \/ DeleteSearch(p)
        \/ DeleteAssign(p)
        \/ Unlock(p)
        \/ \E id \in ConcIDs : CallGet(p, id)
        \/ \E vector \in QueryVectors, o \in ConcQueryOptions : CallQuery(p, vector, o)
        \/ CallSize(p)
        \/ SizeBody(p)
        \/ GetBody(p)
        \/ QuerySnapshot(p)
        \/ \E i \in 1..NumConcIDs : QueryRead(p, i)
        \/ QueryMerge(p)
        \/ RUnlock(p)

SpecConc == InitConc /\ [][NextConc]_vars

(***************************************************************************)
(* One Query, call by call of querySlice and goroutine by goroutine        *)
(***************************************************************************)
\* The payloads of the entries the Query runs on.
QueryPayloads == { p \in Payloads : p.Metadata # "Grant" }

\* The stores the Query runs on: db.entries with IDs 1..n, the IDs playing
\* no part in querySlice.
QueryStores ==
    UNION { { [i \in 1..n |-> [ID |-> i, Metadata |-> f[i].Metadata,
                               Vector |-> f[i].Vector]] :
                f \in [1..n -> QueryPayloads] } : n \in 0..NumQueryIDs }

\* The options of the Query (TopK 1 and 2).
SliceQueryOptions ==
    { o \in QueryOptions : /\ o.TopK \in {1, 2}
                           /\ o.MinimumScore = ScoreOf(0)
                           /\ o.Predicate = NoPredicate }

\* The goroutine that calls Query.
Caller == 1

\* The call db.querySlice(db.entries, vector, &o) of Query.
Root == <<1, Len(entries)>>

LenOf(r) == r[2] - r[1] + 1

\* A left half that stops one entry short: entries[:half-1].
LeftOfShort(r) == <<r[1], r[1] + LenOf(r) \div 2 - 2>>

\* half := len(entries) / 2; entries[:half] and entries[half:]
Half(r) == LenOf(r) \div 2
LeftOf(r) == <<r[1], r[1] + Half(r) - 1>>
RightOf(r) == <<r[1] + Half(r), r[2]>>

\* A goroutine that ends without wg.Done().
WgDoneMissing(n) == n

\* A go statement without its wg.Add(1).
WgAddMissing(n) == n

\* wg.Add(1), wg.Done() on the counter of the WaitGroup.
WgAdd(n) == n + 1
WgDone(n) == n - 1

\* One iteration of the merge loop on the locals c of a call.
MergeIteration(c) ==
    IF Len(c.leftResult) = 0
    THEN [c EXCEPT !.results = Append(@, Head(c.rightResult)),
                   !.rightResult = Tail(@)]
    ELSE IF Len(c.rightResult) = 0
    THEN [c EXCEPT !.results = Append(@, Head(c.leftResult)),
                   !.leftResult = Tail(@)]
    ELSE IF ScoreGeq(Head(c.leftResult).Score, Head(c.rightResult).Score)
    THEN [c EXCEPT !.results = Append(@, Head(c.leftResult)),
                   !.leftResult = Tail(@)]
    ELSE [c EXCEPT !.results = Append(@, Head(c.rightResult)),
                   !.rightResult = Tail(@)]

\* The ranges of the stores' entries.
Ranges == { r \in (1..(NumQueryIDs + 1)) \X (0..NumQueryIDs) : r[2] >= r[1] - 1 }

\* The locals of the call on range r (NoSliceCall: there is no such call).
CallAt(r) == IF r \in DOMAIN calls THEN calls[r] ELSE NoSliceCall

\* The calls cs and a call of querySlice on range r; cs without the call on r.
Called(cs, r) ==
    [x \in DOMAIN cs \cup {r} |->
        IF x = r THEN [NoSliceCall EXCEPT !.pc = "called"] ELSE cs[x]]
Ended(cs, r) == [x \in DOMAIN cs \ {r} |-> cs[x]]

\* A store of some size, no call in progress.
InitQuery ==
    /\ entries \in QueryStores
    /\ distanceMetric \in Metrics
    /\ written = [id \in IDs |-> NilEntry]
    /\ last = NoCall
    /\ callerEntries = NoCallerEntries
    /\ calls = NoCalls
    /\ visits = NoVisits
    /\ tools = NoTools
    /\ ConcIdle

\* Query: return db.querySlice(db.entries, vector, &o) is called.
QueryEnter ==
    /\ pc[Caller] = "QueryBody"
    /\ pc' = [pc EXCEPT ![Caller] = "QuerySlice"]
    /\ calls' = Called(calls, Root)
    /\ visits' = [i \in 1..Len(entries) |-> 0]
    /\ UNCHANGED <<entries, distanceMetric, callerEntries, tools, written, last, mu, frame,
                   committed, hist>>

\* What a step of the querySlice calls leaves alone.
LeafFrame ==
    UNCHANGED <<entries, distanceMetric, callerEntries, tools, written, last, mu, pc,
                frame, committed, hist>>
SliceFrame == LeafFrame /\ UNCHANGED visits

\* len(entries) > threshold: wg.Add(1) and the go statement; the new
\* goroutine calls querySlice on the left half.
Fork(r) ==
    /\ CallAt(r).pc = "called"
    /\ LenOf(r) > queryThreshold
    /\ calls' = Called([calls EXCEPT ![r].pc = "forked", ![r].wg = WgAdd(@),
                                     ![r].go = "running"],
                       LeftOf(r))
    /\ SliceFrame

\* The current goroutine calls querySlice on the right half.
CallRight(r) ==
    /\ CallAt(r).pc = "forked"
    /\ calls' = Called([calls EXCEPT ![r].pc = "right"], RightOf(r))
    /\ SliceFrame

\* rightResult := (what the call on the right half returns)
RightReturns(r) ==
    /\ CallAt(r).pc = "right"
    /\ CallAt(RightOf(r)).pc = "returned"
    /\ calls' = Ended([calls EXCEPT ![r].pc = "wait",
                                    ![r].rightResult = calls[RightOf(r)].results],
                      RightOf(r))
    /\ SliceFrame

\* The spawned goroutine: leftResult = (what its call returns).
GoReturns(r) ==
    /\ CallAt(r).go = "running"
    /\ CallAt(LeftOf(r)).pc = "returned"
    /\ calls' = Ended([calls EXCEPT ![r].leftResult = calls[LeftOf(r)].results,
                                    ![r].go = "assigned"],
                      LeftOf(r))
    /\ SliceFrame

\* The spawned goroutine ends: the deferred wg.Done().
GoDone(r) ==
    /\ CallAt(r).go = "assigned"
    /\ calls' = [calls EXCEPT ![r].wg = WgDone(@), ![r].go = "done"]
    /\ SliceFrame

\* A wg.Wait() that returns whatever the counter is.
WgWaitReturnsAtOnce(n) == TRUE

\* wg.Wait() returns when the counter is zero.
WgWaitReturns(n) == n = 0

\* wg.Wait() has returned; resultCount and the empty results are made.
Wait(r) ==
    /\ CallAt(r).pc = "wait"
    /\ WgWaitReturns(calls[r].wg)
    /\ calls' = [calls EXCEPT ![r].pc = "merge",
                              ![r].resultCount =
                                  Len(calls[r].leftResult) + Len(calls[r].rightResult),
                              ![r].results = <<>>]
    /\ SliceFrame

\* for len(results) < resultCount { ... }: one iteration.
MergeIter(r) ==
    /\ CallAt(r).pc = "merge"
    /\ Len(calls[r].results) < calls[r].resultCount
    /\ calls' = [calls EXCEPT ![r] = MergeIteration(@)]
    /\ SliceFrame

\* The merge loop ends: return results.
MergeReturn(r) ==
    /\ CallAt(r).pc = "merge"
    /\ ~(Len(calls[r].results) < calls[r].resultCount)
    /\ calls' = [calls EXCEPT ![r].pc = "returned"]
    /\ SliceFrame

\* len(entries) <= threshold: results := make([]QueryResult, 0, o.TopK)
LeafMake(r) ==
    /\ CallAt(r).pc = "called"
    /\ ~(LenOf(r) > queryThreshold)
    /\ calls' = [calls EXCEPT ![r].pc = "loop", ![r].k = r[1], ![r].results = <<>>]
    /\ SliceFrame

\* for _, e := range entries { ... }: one iteration.
LeafIter(r) ==
    /\ CallAt(r).pc = "loop"
    /\ calls[r].k <= r[2]
    /\ calls' = [calls EXCEPT ![r].k = @ + 1,
                              ![r].results =
                                  LeafStep(distanceMetric, @, entries[calls[r].k],
                                           frame[Caller].vector, frame[Caller].o)]
    /\ visits' = [visits EXCEPT ![calls[r].k] = @ + 1]
    /\ LeafFrame

\* The leaf loop ends: return results.
LeafReturn(r) ==
    /\ CallAt(r).pc = "loop"
    /\ calls[r].k > r[2]
    /\ calls' = [calls EXCEPT ![r].pc = "returned"]
    /\ SliceFrame

\* Query returns what querySlice returned; the deferred RUnlock is next.
QueryReturn ==
    /\ pc[Caller] = "QuerySlice"
    /\ CallAt(Root).pc = "returned"
    /\ frame' = [frame EXCEPT ![Caller].results = calls[Root].results]
    /\ calls' = Ended(calls, Root)
    /\ pc' = [pc EXCEPT ![Caller] = "RUnlock"]
    /\ UNCHANGED <<entries, distanceMetric, callerEntries, visits, tools, written, last, mu,
                   committed, hist>>

\* The steps of the goroutines of a Query that holds the read lock.
QueryStep ==
    \/ QueryEnter
    \/ \E r \in Ranges :
          \/ Fork(r)
          \/ CallRight(r)
          \/ RightReturns(r)
          \/ GoReturns(r)
          \/ GoDone(r)
          \/ Wait(r)
          \/ MergeIter(r)
          \/ MergeReturn(r)
          \/ LeafMake(r)
          \/ LeafIter(r)
          \/ LeafReturn(r)
    \/ QueryReturn
    \/ RUnlock(Caller)

NextQuery ==
    \/ \E vector \in QueryVectors, o \in SliceQueryOptions :
          CallQuery(Caller, vector, o)
    \/ QueryStep

SpecQuery == InitQuery /\ [][NextQuery]_vars

\* Some goroutine of the Query that can run is scheduled eventually.
SpecQueryFair == SpecQuery /\ WF_vars(QueryStep)

(***************************************************************************)
(* Helpers of the properties                                               *)
(***************************************************************************)
\* The IDs held by a slice of entries.
IDsOf(s) == { s[i].ID : i \in 1..Len(s) }

\* The positions of a slice that hold id.
SlotsOf(s, id) == { i \in 1..Len(s) : s[i].ID = id }

Min(a, b) == IF a <= b THEN a ELSE b

\* Whether the leaf loop admits e: the predicate and the minimum-score test.
Eligible(metric, e, vector, o) ==
    /\ o.Predicate = NoPredicate \/ PredicateHolds(o.Predicate, e)
    /\ ~ScoreLess(Distance(metric, vector, e.Vector), o.MinimumScore)

EligibleCount(metric, s, vector, o) ==
    Cardinality({ i \in 1..Len(s) : Eligible(metric, s[i], vector, o) })

\* a is at least as close as b by the metric's declared direction.
NoWorse(metric, a, b) ==
    IF BiggerIsCloser(metric) THEN ScoreGeq(a, b) ELSE ScoreGeq(b, a)

\* Two result lists that differ at most in the order of equal scores.
SameUpToTies(r1, r2) ==
    /\ Len(r1) = Len(r2)
    /\ \A i \in 1..Len(r1) :
          /\ ~ScoreLess(r1[i].Score, r2[i].Score)
          /\ ~ScoreLess(r2[i].Score, r1[i].Score)
    /\ { r1[i].Entry : i \in 1..Len(r1) } = { r2[i].Entry : i \in 1..Len(r2) }

\* The scenario's store {A:[1,0], B:[0,1], C:[1,1]} as db.entries.
ScenarioVectors == << <<1, 0>>, <<0, 1>>, <<1, 1>> >>

IsScenarioStore(s) ==
    /\ Len(s) = 3
    /\ \A i \in 1..3 : s[i].ID = i /\ s[i].Vector = ScenarioVectors[i]

\* The last call was Query([1,0]) with TopK = k, MinimumScore = 0 and no
\* predicate on the scenario's DotProduct store.
ScenarioQuery(k) ==
    /\ last.op = "Query"
    /\ distanceMetric = "DotProduct"
    /\ IsScenarioStore(last.before)
    /\ last.vector = <<1, 0>>
    /\ last.o = [TopK |-> k, MinimumScore |-> ScoreOf(0), Predicate |-> NoPredicate]

(***************************************************************************)
(* Properties of the store operations                                      *)
(***************************************************************************)
\* C2: after any sequence of Upsert and Delete calls, Get(id) returns
\* found = true with the entry last upserted under id when id was upserted and
\* not deleted since, and (nil, false) for every other id.
C2_GetReturnsLastWritten ==
    /\ \A id \in IDs :
          GetResult(entries, id) =
              [entry |-> written[id], found |-> written[id] # NilEntry]
    /\ last.op = "Get" =>
          /\ last.ret = written[last.id]
          /\ last.found <=> written[last.id] # NilEntry

\* A Get that found its entry in a store of several entries, and one that did not.
C2_Witness ==
    /\ last.op = "Get"
    /\ last.found
    /\ last.ret.Metadata = "Grant"
    /\ Len(entries) >= 2
    /\ \E id \in IDs : written[id] = NilEntry

\* C3: upserting two entries with the same ID in succession leaves exactly one
\* entry with that ID, the second one, and the size is the size after the first
\* Upsert.
C3_UpsertTwice ==
    /\ \A e1, e2 \in Entry :
          e1.ID = e2.ID =>
             LET s1 == UpsertEntries(entries, e1)
                 s2 == UpsertEntries(s1, e2)
             IN  /\ Len(s2) = Len(s1)
                 /\ Cardinality(SlotsOf(s2, e2.ID)) = 1
                 /\ \A i \in SlotsOf(s2, e2.ID) : s2[i] = e2
    /\ (last.op = "Upsert" /\ last.id \in IDsOf(last.before)) =>
          /\ Len(entries) = Len(last.before)
          /\ Cardinality(SlotsOf(entries, last.id)) = 1
          /\ \A i \in SlotsOf(entries, last.id) : entries[i] = last.entry

\* An Upsert that replaced an entry of the same ID and another payload.
C3_Witness ==
    /\ last.op = "Upsert"
    /\ \E i \in 1..Len(last.before) :
          last.before[i].ID = last.id /\ last.before[i] # last.entry
    /\ Len(entries) >= 2

\* C4: Delete(id) for an id that is not in the store leaves size, entries and
\* order unchanged.
C4_DeleteAbsentNoOp ==
    (last.op = "Delete" /\ last.id \notin IDsOf(last.before)) =>
        entries = last.before

\* A Delete of an absent id that lies between two present ones.
C4_Witness ==
    /\ last.op = "Delete"
    /\ last.id \notin IDsOf(last.before)
    /\ \E i, j \in IDsOf(last.before) : i < last.id /\ last.id < j

(***************************************************************************)
(* Properties of Query                                                     *)
(***************************************************************************)
\* C5: the number of results never exceeds min(TopK, number of entries that
\* pass the predicate and the minimum-score cutoff), at any store size.
C5_TopKBound ==
    last.op = "Query" =>
        Len(last.results) <=
            Min(last.o.TopK,
                EligibleCount(distanceMetric, last.before, last.vector, last.o))

\* C6: every adjacent pair of results is ordered closest-first by the
\* metric's declared direction.
C6_ClosestFirst ==
    last.op = "Query" =>
        \A i \in 1..(Len(last.results) - 1) :
            NoWorse(distanceMetric, last.results[i].Score, last.results[i + 1].Score)

\* C7: with any partition threshold the query returns the same list, up to
\* the order of results with equal scores.
C7_ThresholdIndependent ==
    last.op = "Query" =>
        \A th \in 1..(NumIDs + 1) :
            SameUpToTies(querySliceT(distanceMetric, last.before, last.vector,
                                     last.o, th),
                         last.results)

\* C8: on the scenario's store, TopK = 2 returns exactly A and C, each with
\* score 1, in either order.
C8_ScenarioTop2 ==
    ScenarioQuery(2) =>
        /\ Len(last.results) = 2
        /\ { last.results[i].Entry.ID : i \in 1..Len(last.results) } = {1, 3}
        /\ \A i \in 1..Len(last.results) : last.results[i].Score = ScoreOf(1)

\* C9: on the scenario's store, TopK = 3 returns all three entries with B last.
C9_ScenarioTop3 ==
    ScenarioQuery(3) =>
        /\ Len(last.results) = 3
        /\ { last.results[i].Entry.ID : i \in 1..Len(last.results) } = {1, 2, 3}
        /\ last.results[3].Entry.ID = 2

(***************************************************************************)
(* Properties of the concurrent callers                                    *)
(***************************************************************************)
StrictlySorted(s) == \A i \in 1..(Len(s) - 1) : s[i].ID < s[i + 1].ID

\* Some Upsert or Delete is between the two halves of its slice operation.
MidMutation == \E p \in Procs : pc[p] \in {"UpsertAssign", "DeleteAssign"}

\* C1: from the empty store, after every operation of any sequence of Upsert
\* and Delete calls, sequential or concurrent, db.entries is strictly
\* ascending by ID (sorted, no two entries with one ID).
C1_SortedNoDuplicates ==
    ~MidMutation => StrictlySorted(entries)

\* An Upsert, about to return, has inserted ID 1 in front of ID 2 while
\* another goroutine is in a call of its own.
C1_Witness ==
    \E p, q \in Procs :
        /\ pc[p] = "Unlock" /\ frame[p].op = "Upsert" /\ frame[p].id = 1
        /\ Len(frame[p].s) = 1 /\ frame[p].s[1].ID = 2
        /\ Len(entries) = 2
        /\ q # p /\ pc[q] # "idle"

\* What a query has read so far is what the slice s holds at those positions.
ConsistentWith(seen, s) ==
    /\ Len(seen) = Len(s)
    /\ \A i \in 1..Len(seen) : seen[i] = Unread \/ seen[i] = s[i]

\* C10: a Query that runs concurrently with Upsert and Delete calls scores,
\* over all its goroutines, the entries of the store as one completed
\* mutation left it, and returns the result of the Query on that store.
C10_QuerySeesOneState ==
    \A p \in Procs :
        (frame[p].op = "Query" /\ pc[p] \in {"QueryRead", "RUnlock"}) =>
            \E s \in hist[p] :
                /\ ConsistentWith(frame[p].seen, s)
                /\ pc[p] = "RUnlock" =>
                      frame[p].results =
                          querySliceT(distanceMetric, s, frame[p].vector,
                                      frame[p].o, concThreshold)

\* A Query over two entries (two goroutines) is about to return while a
\* writer waits in Lock for it.
C10_Witness ==
    \E p, q \in Procs :
        /\ pc[p] = "RUnlock" /\ frame[p].op = "Query"
        /\ Len(frame[p].seen) = 2 /\ Len(frame[p].results) = 2
        /\ pc[q] = "Lock"

\* A goroutine is between Lock and Unlock of an Upsert or a Delete.
InWriteSection(p) ==
    pc[p] \in {"UpsertBody", "UpsertAssign", "DeleteBody", "DeleteAssign", "Unlock"}

\* A goroutine is between RLock and RUnlock of a Get, a Query or a size read.
InReadSection(p) ==
    pc[p] \in {"GetBody", "SizeBody", "QueryBody", "QueryRead", "RUnlock"}

\* C11: while an Upsert or a Delete is inside its critical section, no Get,
\* Query, size read or other Upsert or Delete is inside its own; and the
\* readers do not exclude each other: a goroutine is blocked in RLock only
\* while a writer holds or awaits the lock, never by other readers alone.
C11_WriterExcludesAll ==
    /\ \A p, q \in Procs :
          (InWriteSection(p) /\ q # p) => ~InWriteSection(q) /\ ~InReadSection(q)
    /\ \A q \in Procs : pc[q] = "RLock" => mu.writer # 0

\* An Upsert is between the two halves of its insertion while a reader is
\* blocked in RLock behind it.
C11_Witness ==
    \E p, q \in Procs :
        /\ pc[p] = "UpsertAssign" /\ mu.writer = p
        /\ pc[q] = "RLock" /\ q \in mu.rwait

(***************************************************************************)
(* Properties of calls outside the preconditions                           *)
(***************************************************************************)
\* No entry of s passes the predicate and the cutoff of the query.
NonePasses(metric, s, vector, o) ==
    \A k \in 1..Len(s) :
        \/ PredicateRejects(o, s[k])
        \/ /\ ~DistancePanics(vector, s[k].Vector)
           /\ ScoreLess(Distance(metric, vector, s[k].Vector), o.MinimumScore)

\* C12: a Query on a store with zero entries, or on a store where no entry
\* passes the predicate and the cutoff, returns an empty result list and does
\* not fail.
C12_NothingPassesEmptyResult ==
    (last.op = "Query" /\ NonePasses(distanceMetric, last.before, last.vector, last.o)) =>
        ~last.panicked /\ last.results = <<>>

\* The query's predicate is not nil and is false for e.
RejectedByPredicate(o, e) == o.Predicate = "NotGrant" /\ e.Metadata = "Grant"

\* The entries of s that a query with options o hands to Distance.
ScoredEntries(s, o) == { s[k] : k \in { j \in 1..Len(s) : ~RejectedByPredicate(o, s[j]) } }

\* C13: a Query whose TopK is zero or negative returns an empty result list
\* and does not fail, whatever the store contains (of vectors the query
\* vector can be scored against).
C13_NonPositiveTopKEmptyResult ==
    ( /\ last.op = "Query"
      /\ last.o.TopK <= 0
      /\ \A e \in ScoredEntries(last.before, last.o) :
            Len(e.Vector) = Len(last.vector) ) =>
        ~last.panicked /\ last.results = <<>>

\* C14: a Query that scores an entry whose vector is shorter or longer than
\* the query vector fails: it returns no result list.
C14_LengthMismatchFails ==
    ( /\ last.op = "Query"
      /\ \E e \in ScoredEntries(last.before, last.o) :
            Len(e.Vector) # Len(last.vector) ) =>
        last.panicked

\* C15: a Query with a vector of length 3 that scores a stored vector of
\* length 2 fails the computation and returns no score.
C15_Length3Against2Fails ==
    ( /\ last.op = "Query"
      /\ Len(last.vector) = 3
      /\ \E e \in ScoredEntries(last.before, last.o) : Len(e.Vector) = 2 ) =>
        last.panicked /\ last.results = <<>>

\* A Query with TopK 1 and a vector of length 3 has panicked on a store whose
\* one entry has a vector of length 2.
C15_Witness ==
    /\ last.op = "Query" /\ last.panicked
    /\ last.o.TopK = 1 /\ last.o.Predicate = NoPredicate
    /\ Len(last.vector) = 3
    /\ Len(last.before) = 1 /\ Len(last.before[1].Vector) = 2

\* C18: an entry for which the predicate is false is never passed to the
\* distance metric (it cannot make the Query panic) and never appears in the
\* results, at any leaf and after any merge.
C18_RejectedNeverScored ==
    last.op = "Query" =>
        /\ \A i \in 1..Len(last.results) :
              ~RejectedByPredicate(last.o, last.results[i].Entry)
        /\ ( /\ last.o.TopK >= 0
             /\ \A e \in ScoredEntries(last.before, last.o) :
                   Len(e.Vector) >= Len(last.vector) ) =>
               ~last.panicked

\* A Query with a vector of length 3 has returned the one entry the predicate
\* keeps, from a store of two leaves whose other entry, with a vector of
\* length 2, the predicate rejects.
C18_Witness ==
    /\ last.op = "Query" /\ ~last.panicked
    /\ last.o.TopK = 1 /\ last.o.Predicate = "NotGrant"
    /\ Len(last.vector) = 3
    /\ Len(last.before) = 2
    /\ last.before[1].Metadata = "Grant" /\ Len(last.before[1].Vector) = 2
    /\ Len(last.results) = 1 /\ last.results[1].Entry = last.before[2]

(***************************************************************************)
(* Properties of the cutoff and of the leaf                                *)
(***************************************************************************)
\* C16: the minimum-score cutoff follows the metric's direction: every
\* result has score >= MinimumScore when BiggerIsCloser() is true and
\* score <= MinimumScore when it is false.
C16_CutoffFollowsDirection ==
    last.op = "Query" =>
        \A i \in 1..Len(last.results) :
            IF BiggerIsCloser(distanceMetric)
            THEN ScoreGeq(last.results[i].Score, last.o.MinimumScore)
            ELSE ScoreGeq(last.o.MinimumScore, last.results[i].Score)

\* The entries of s that pass the predicate and the cutoff and are not in
\* the results.
LeftOut(metric, s, vector, o, results) ==
    { e \in { s[k] : k \in 1..Len(s) } :
        /\ Eligible(metric, e, vector, o)
        /\ \A i \in 1..Len(results) : results[i].Entry # e }

\* C20: for a store of at most threshold entries (one leaf) the Query
\* returns the K closest eligible entries by the metric's declared direction
\* (no entry left out is closer than a returned one), or all the eligible
\* entries when there are fewer than K.
C20_LeafKeepsKClosest ==
    (last.op = "Query" /\ Len(last.before) <= threshold) =>
        /\ Len(last.results) =
              Min(last.o.TopK,
                  EligibleCount(distanceMetric, last.before, last.vector, last.o))
        /\ \A i \in 1..Len(last.results) :
              \A e \in LeftOut(distanceMetric, last.before, last.vector, last.o,
                               last.results) :
                  NoWorse(distanceMetric, last.results[i].Score,
                          Distance(distanceMetric, last.vector, e.Vector))

(***************************************************************************)
(* Properties of the store made from a slice of the caller                 *)
(***************************************************************************)
\* C17: the backing collection is never reachable for mutation from outside
\* the store: no write of the caller to its own slice changes db.entries
\* (what Get and Query observe), and no Upsert or Delete writes to the
\* caller's slice.
C17_CallerSliceApart ==
    /\ last.op = "CallerWrite" => entries = last.before
    /\ last.op \in {"Upsert", "Delete"} =>
          callerEntries.array = callerEntries.before

(***************************************************************************)
(* Termination of Query                                                    *)
(***************************************************************************)
\* C19: once a Query has acquired the read lock it runs to completion: the
\* recursion, every goroutine and every merge loop end, the Query returns
\* and it releases the read lock.
C19_QueryReturns ==
    (pc[Caller] = "QueryBody" /\ Caller \in mu.readers) ~>
        (pc[Caller] = "idle" /\ Caller \notin mu.readers)

\* The Query of a store of five entries, after two forks and two merges, is
\* about to release the read lock.
C19_Witness ==
    /\ pc[Caller] = "RUnlock" /\ frame[Caller].op = "Query"
    /\ Caller \in mu.readers
    /\ Len(entries) = 5 /\ Len(frame[Caller].results) = 3
    /\ calls = NoCalls

(***************************************************************************)
(* Properties of the leaf loop and of the merge                            *)
(***************************************************************************)
\* The leaf's partial list before it looks at entry k of the leaf's entries s.
KeptBefore(s, k) ==
    LeafLoop(distanceMetric, <<>>, SubSeq(s, 1, k - 1), 1, last.vector, last.o)

\* Two scores that compare equal.
ScoreEqual(a, b) == ~ScoreLess(a, b) /\ ~ScoreGreater(a, b)

\* C21: in the leaf loop, when the partial list already holds K results and
\* the new entry's score equals the score of the current worst (last) kept
\* result, the new entry is discarded and the kept results are unchanged.
C21_EqualToWorstDiscarded ==
    (last.op = "Query" /\ Len(last.before) <= threshold) =>
        \A k \in 1..Len(last.before) :
           LET kept == KeptBefore(last.before, k)
               e    == last.before[k]
           IN  ( /\ last.o.TopK > 0
                 /\ Len(kept) = last.o.TopK
                 /\ Eligible(distanceMetric, e, last.vector, last.o)
                 /\ ScoreEqual(Distance(distanceMetric, last.vector, e.Vector),
                               kept[Len(kept)].Score) ) =>
               LeafStep(distanceMetric, kept, e, last.vector, last.o) = kept

\* No adjacent pair of results is out of the order the leaf comparator keeps.
InLeafOrder(metric, results) ==
    \A i \in 1..(Len(results) - 1) : leafCmp(metric, results[i], results[i + 1]) <= 0

\* What the calls on the two halves of s return to the merge.
LeftResultOf(s) ==
    querySlice(distanceMetric, SubSeq(s, 1, Len(s) \div 2), last.vector, last.o)
RightResultOf(s) ==
    querySlice(distanceMetric, SubSeq(s, Len(s) \div 2 + 1, Len(s)), last.vector, last.o)

\* C22: merging two partial lists sorted in the leaves' order yields a list
\* sorted in that same order, for both metrics: no adjacent pair of the merged
\* list is out of the order used inside the leaves.
C22_MergeKeepsLeafOrder ==
    ( /\ last.op = "Query" /\ Len(last.before) > threshold
      /\ InLeafOrder(distanceMetric, LeftResultOf(last.before))
      /\ InLeafOrder(distanceMetric, RightResultOf(last.before)) ) =>
            /\ last.results = Merge(LeftResultOf(last.before), RightResultOf(last.before))
            /\ InLeafOrder(distanceMetric, last.results)

\* How many times x occurs in the list s.
Occurrences(s, x) == Cardinality({ i \in 1..Len(s) : s[i] = x })

\* The elements of the list s.
ElementsOf(s) == { s[i] : i \in 1..Len(s) }

C24_MergeAtMostTwiceTopK ==
    \A r \in Ranges :
        CallAt(r).pc = "merge" =>
            /\ CallAt(r).resultCount <= 2 * frame[Caller].o.TopK
            /\ Len(CallAt(r).results) <= 2 * frame[Caller].o.TopK

(***************************************************************************)
(* Properties of the recursion of querySlice                               *)
(***************************************************************************)
\* The call on r has split its entries: it is between the go statement and
\* the end of its merge.
HasSplit(r) == CallAt(r).pc \in {"forked", "right", "wait", "merge"}

\* r is the first floor(n/2) or the remaining ceil(n/2) entries of the range p
\* of n entries.
IsLowerPart(r, p) ==
    /\ r[1] = p[1]
    /\ LenOf(r) = LenOf(p) \div 2
IsUpperPart(r, p) ==
    /\ r[2] = p[2]
    /\ LenOf(r) = LenOf(p) - LenOf(p) \div 2

\* C25: a partition of n entries is processed sequentially when
\* n <= threshold and is otherwise split into two contiguous, disjoint
\* sub-partitions of floor(n/2) and ceil(n/2) entries; over the whole
\* recursion every entry of the store is visited by exactly one leaf, and
\* every leaf has at most threshold entries.
C25_SplitPartitionsTheStore ==
    /\ \A r \in Ranges :
          /\ CallAt(r).pc = "loop" => LenOf(r) <= queryThreshold
          /\ HasSplit(r) => LenOf(r) > queryThreshold
          /\ (r \in DOMAIN calls /\ r # Root) =>
                \E p \in Ranges :
                    /\ CallAt(p).pc \in {"forked", "right", "wait"}
                    /\ LenOf(p) > queryThreshold
                    /\ IsLowerPart(r, p) \/ IsUpperPart(r, p)
          /\ CallAt(r).pc = "loop" =>
                \A i \in r[1]..r[2] :
                    visits[i] = IF i < CallAt(r).k THEN 1 ELSE 0
          /\ CallAt(r).pc = "right" =>
                \E lo, up \in Ranges :
                    /\ IsLowerPart(lo, r) /\ IsUpperPart(up, r)
                    /\ up \in DOMAIN calls
                    /\ lo[2] + 1 = up[1]
                    /\ lo \in DOMAIN calls \/ CallAt(r).go \in {"assigned", "done"}
    /\ \A i \in DOMAIN visits : visits[i] <= 1
    /\ (pc[Caller] = "RUnlock" /\ frame[Caller].op = "Query") =>
          /\ DOMAIN visits = 1..Len(entries)
          /\ \A i \in 1..Len(entries) : visits[i] = 1

\* The Query of a store of five entries, split into 2 and 3 and the 3 into
\* 1 and 2, has returned after three leaves.
C25_Witness ==
    /\ pc[Caller] = "RUnlock" /\ frame[Caller].op = "Query"
    /\ Len(entries) = 5
    /\ \A i \in 1..5 : visits[i] = 1

\* A call of querySlice on a part of the range r is in progress.
RunningBelow(r) ==
    \E c \in Ranges :
        /\ c \in DOMAIN calls
        /\ c # r
        /\ c[1] >= r[1] /\ c[2] <= r[2]

\* C26: in querySlice the merge of a partition starts only after both the
\* spawned goroutine (left half) and the current goroutine (right half) have
\* finished; leftResult is never read before the spawned goroutine has
\* written it, and no spawned goroutine is still running when Query returns
\* and releases the read lock.
C26_MergeAfterBothHalves ==
    /\ \A r \in Ranges :
          ( \/ CallAt(r).pc = "merge"
            \/ CallAt(r).pc = "returned" /\ LenOf(r) > queryThreshold ) =>
              /\ CallAt(r).go = "done"
              /\ CallAt(r).wg = 0
              /\ ~RunningBelow(r)
    /\ \A r \in Ranges :
          CallAt(r).go \in {"none", "running"} => CallAt(r).leftResult = <<>>
    /\ (pc[Caller] # "QuerySlice" \/ Caller \notin mu.readers) => calls = NoCalls

\* The root call on five entries is in its merge loop and has taken a result
\* from leftResult, which its goroutine wrote before it ended.
C26_Witness ==
    /\ CallAt(<<1, 5>>).pc = "merge"
    /\ CallAt(<<1, 5>>).go = "done"
    /\ \E i \in 1..Len(CallAt(<<1, 5>>).results) :
          CallAt(<<1, 5>>).results[i].Entry \in {entries[1], entries[2]}

(***************************************************************************)
(* What the calls change and what they leave alone                         *)
(***************************************************************************)
\* The entries of s whose ID is not id, in the order of s.
RECURSIVE Without(_, _)
Without(s, id) ==
    IF s = <<>> THEN <<>>
    ELSE IF Head(s).ID = id THEN Without(Tail(s), id)
    ELSE <<Head(s)>> \o Without(Tail(s), id)

\* C27: Upsert(entry) changes only the slot of entry.ID: when the ID is absent
\* the size grows by exactly one and every other entry is kept, in the same
\* relative order; when the ID is present the size is unchanged, the slot at
\* that position now holds the new entry, and every other entry is unchanged.
C27_UpsertChangesOneSlot ==
    last.op = "Upsert" =>
        /\ Without(entries, last.id) = Without(last.before, last.id)
        /\ Cardinality(SlotsOf(entries, last.id)) = 1
        /\ last.id \notin IDsOf(last.before) =>
              /\ Len(entries) = Len(last.before) + 1
              /\ \E i \in 1..Len(entries) : entries[i] = last.entry
        /\ last.id \in IDsOf(last.before) =>
              /\ Len(entries) = Len(last.before)
              /\ \A i \in 1..Len(last.before) :
                    entries[i] = IF last.before[i].ID = last.id
                                 THEN last.entry
                                 ELSE last.before[i]

\* An Upsert has inserted a new ID between two entries it kept.
C27_Witness ==
    /\ last.op = "Upsert"
    /\ Len(last.before) = 2 /\ Len(entries) = 3
    /\ entries[2] = last.entry
    /\ entries[1] = last.before[1] /\ entries[3] = last.before[2]

\* An Upsert has replaced the entry of a present ID, the second of three, by
\* a different entry.
C27_ReplaceWitness ==
    /\ last.op = "Upsert"
    /\ Len(last.before) = 3 /\ Len(entries) = 3
    /\ last.before[2].ID = last.id
    /\ last.before[2] # last.entry

\* C28: Delete(id) for an id present in the store removes exactly the one
\* entry with that ID: the size shrinks by exactly one, Get(id) then returns
\* found = false, and every other entry is kept in the same relative order.
C28_DeleteRemovesOneEntry ==
    (last.op = "Delete" /\ last.id \in IDsOf(last.before)) =>
        /\ Len(entries) = Len(last.before) - 1
        /\ GetResult(entries, last.id) = [entry |-> NilEntry, found |-> FALSE]
        /\ last.id \notin IDsOf(entries)
        /\ entries = Without(last.before, last.id)

\* A Delete has removed the second of three entries.
C28_Witness ==
    /\ last.op = "Delete"
    /\ Len(last.before) = 3 /\ Len(entries) = 2
    /\ last.before[2].ID = last.id
    /\ entries[1] = last.before[1] /\ entries[2] = last.before[3]

\* C29: Get and Query leave the store unchanged: after any Get or Query
\* (found or not, with any options) the entries, their order and the size are
\* identical to those before the call.
C29_ReadsLeaveStoreUnchanged ==
    last.op \in {"Get", "Query"} =>
        /\ entries = last.before
        /\ Len(entries) = Len(last.before)

\* A Query of a store of two leaves has returned TopK results, the leaves
\* having deleted and inserted in their own lists; the store is as it was.
C29_Witness ==
    /\ last.op = "Query"
    /\ Len(last.before) > threshold
    /\ last.o.TopK = 1
    /\ Len(last.results) = 2
    /\ entries = last.before

\* A Get has found its entry and one has not; the store is as it was.
C29_GetWitness ==
    /\ last.op = "Get" /\ last.found
    /\ Len(last.before) = 3
    /\ entries = last.before

(***************************************************************************)
(* The result of a Query and the scheduling of its goroutines              *)
(***************************************************************************)
\* What querySlice returns on the range r of the store, as a function of the
\* store, the query vector and the options alone.
ResultOn(r) ==
    querySliceT(distanceMetric, SubSeq(entries, r[1], r[2]),
                frame[Caller].vector, frame[Caller].o, queryThreshold)

\* C30: a Query's result is deterministic under scheduling: for a fixed store
\* state, query vector and options, every interleaving of the goroutines
\* spawned by querySlice returns the same result list, including which of
\* several equal-score entries is kept at the K boundary and their order.
C30_ResultIndependentOfSchedule ==
    /\ \A r \in Ranges :
          CallAt(r).pc = "returned" => CallAt(r).results = ResultOn(r)
    /\ (pc[Caller] = "RUnlock" /\ frame[Caller].op = "Query") =>
          frame[Caller].results = ResultOn(<<1, Len(entries)>>)

\* A Query with TopK 1 has returned from a store of five entries whose first
\* leaf held two entries of equal score, of which it kept the second.
C30_Witness ==
    /\ pc[Caller] = "RUnlock" /\ frame[Caller].op = "Query"
    /\ Len(entries) = 5
    /\ frame[Caller].o.TopK = 1
    /\ entries[1].Vector = entries[2].Vector
    /\ Len(frame[Caller].results) = 3
    /\ \E i \in 1..3 : frame[Caller].results[i].Entry = entries[2]
    /\ \A i \in 1..3 : frame[Caller].results[i].Entry # entries[1]

(***************************************************************************)
(* What a Query's results refer to                                         *)
(***************************************************************************)
\* C31: every result returned by a Query refers to an entry that was in the
\* store at the Query's snapshot, carries the score the metric gives for the
\* query vector and that entry's vector, and no entry appears more than once
\* in the result list, at any store size.
C31_ResultsAreStoreEntries ==
    last.op = "Query" =>
        /\ \A i \in 1..Len(last.results) :
              /\ last.results[i].Entry \in ElementsOf(last.before)
              /\ last.results[i].Score =
                    Distance(distanceMetric, last.vector, last.results[i].Entry.Vector)
        /\ \A i, j \in 1..Len(last.results) :
              last.results[i].Entry = last.results[j].Entry => i = j

\* A Query of a store of two leaves has returned four results, two of them
\* of equal score.
C31_Witness ==
    /\ last.op = "Query"
    /\ Len(last.before) > threshold
    /\ Len(last.results) = 4
    /\ \E i, j \in 1..4 :
          i # j /\ ScoreEqual(last.results[i].Score, last.results[j].Score)

(***************************************************************************)
(* Progress of the calls under db.mu                                       *)
(***************************************************************************)
\* The entries and IDs of the calls whose progress is followed.
LockEntry == { e \in Entry : e.ID <= NumLockIDs /\ e.Metadata = "Jeff" }
LockIDs == 1..NumLockIDs

\* The steps of goroutine p inside a call it has started, but for the wait
\* for the writer mutex.
Continue(p) ==
    \/ WriterEnter(p)
    \/ UpsertSearch(p)
    \/ UpsertAssign(p)
    \/ DeleteSearch(p)
    \/ DeleteAssign(p)
    \/ Unlock(p)
    \/ GetBody(p)
    \/ QuerySnapshot(p)
    \/ \E i \in LockIDs : QueryRead(p, i)
    \/ QueryMerge(p)
    \/ RUnlock(p)

\* The calls the goroutines start.
Start(p) ==
    \/ \E entry \in LockEntry : CallUpsert(p, entry)
    \/ \E id \in LockIDs : CallDelete(p, id)
    \/ \E id \in LockIDs : CallGet(p, id)
    \/ \E vector \in QueryVectors, o \in ConcQueryOptions : CallQuery(p, vector, o)

NextLock == \E p \in Procs : Start(p) \/ LockMutex(p) \/ Continue(p)

SpecLock == InitConc /\ [][NextLock]_vars

\* Every goroutine inside a call is scheduled again and again, and the writer
\* mutex goes to a goroutine that keeps waiting for it (sync.Mutex hands
\* itself over to its longest waiter).
SpecLockFair ==
    SpecLock /\ \A p \in Procs : WF_vars(Continue(p)) /\ SF_vars(LockMutex(p))

\* C32: with a writer-preferring reader/writer lock, every started Get,
\* Query, Upsert and Delete eventually completes under fair scheduling: no
\* interleaving of concurrent readers and writers deadlocks, and no Upsert or
\* Delete waits forever behind a stream of queries.
C32_EveryCallCompletes ==
    \A p \in Procs : (pc[p] # "idle") ~> (pc[p] = "idle")

\* A Delete waits for the writer mutex while an Upsert is in its critical
\* section.
C32_Witness ==
    \E p, q \in Procs :
        /\ pc[p] = "LockMutex" /\ frame[p].op = "Delete"
        /\ pc[q] = "UpsertAssign" /\ mu.writer = q

(***************************************************************************)
(* tools2DB: the tools are upserted by a fork-join recursion               *)
(***************************************************************************)
\* The entry tools2DB makes of the tool called name: the ID is the name, the
\* vector the embedding of the description.
ToolEntry(name) == [ID |-> name, Metadata |-> "Jeff", Vector |-> <<1, 0>>]

\* The lists of tools main gets from the server: names in ascending and in
\* descending order, rotated, and a list in which every name comes twice.
ToolLists ==
    UNION { { [i \in 1..n |-> ((i + k) % n) + 1] : k \in 0..(n - 1) }
            \cup { [i \in 1..n |-> ((n - i + k) % n) + 1] : k \in 0..(n - 1) }
            \cup { [i \in 1..n |-> (i + 1) \div 2] } : n \in 0..NumTools }

\* The ranges of the tools.
ToolRanges == { r \in (1..(NumTools + 1)) \X (0..NumTools) : r[2] >= r[1] - 1 }

\* main: NewVectorDB(CosineSimilarity{}, nil) and the tools listed.
InitTools ==
    /\ entries = <<>>
    /\ distanceMetric = "CosineSimilarity"
    /\ written = [id \in IDs |-> NilEntry]
    /\ last = NoCall
    /\ callerEntries = NoCallerEntries
    /\ calls = NoCalls
    /\ visits = NoVisits
    /\ tools \in ToolLists
    /\ ConcIdle

\* What the steps of tools2DB leave alone.
ToolsFrame ==
    UNCHANGED <<distanceMetric, callerEntries, tools, written, last, frame,
                committed, hist>>

\* main: tools2DB(db, listToolsResult.Tools)
ToolsEnter ==
    /\ pc[Caller] = "idle"
    /\ pc' = [pc EXCEPT ![Caller] = "Tools2DB"]
    /\ calls' = Called(calls, <<1, Len(tools)>>)
    /\ visits' = [i \in 1..Len(tools) |-> 0]
    /\ UNCHANGED <<entries, mu>>
    /\ ToolsFrame

\* len(tools) > threshold: wg.Add(1) and the go statement; the new goroutine
\* calls tools2DB on the left half.
ToolsFork(r) ==
    /\ CallAt(r).pc = "called"
    /\ LenOf(r) > toolsThreshold
    /\ calls' = Called([calls EXCEPT ![r].pc = "forked", ![r].wg = WgAdd(@),
                                     ![r].go = "running"],
                       LeftOf(r))
    /\ UNCHANGED <<entries, mu, pc, visits>>
    /\ ToolsFrame

\* The current goroutine calls tools2DB on the right half.
ToolsCallRight(r) ==
    /\ CallAt(r).pc = "forked"
    /\ calls' = Called([calls EXCEPT ![r].pc = "right"], RightOf(r))
    /\ UNCHANGED <<entries, mu, pc, visits>>
    /\ ToolsFrame

\* The call on the right half returns.
ToolsRightReturns(r) ==
    /\ CallAt(r).pc = "right"
    /\ CallAt(RightOf(r)).pc = "returned"
    /\ calls' = Ended([calls EXCEPT ![r].pc = "wait"], RightOf(r))
    /\ UNCHANGED <<entries, mu, pc, visits>>
    /\ ToolsFrame

\* The spawned goroutine: its call returns, then the deferred wg.Done().
ToolsGoDone(r) ==
    /\ CallAt(r).go = "running"
    /\ CallAt(LeftOf(r)).pc = "returned"
    /\ calls' = Ended([calls EXCEPT ![r].wg = WgDone(@), ![r].go = "done"],
                      LeftOf(r))
    /\ UNCHANGED <<entries, mu, pc, visits>>
    /\ ToolsFrame

\* wg.Wait() has returned; return.
ToolsWait(r) ==
    /\ CallAt(r).pc = "wait"
    /\ WgWaitReturns(calls[r].wg)
    /\ calls' = [calls EXCEPT ![r].pc = "returned"]
    /\ UNCHANGED <<entries, mu, pc, visits>>
    /\ ToolsFrame

\* len(tools) <= threshold: for _, t := range tools
ToolsLoop(r) ==
    /\ CallAt(r).pc = "called"
    /\ ~(LenOf(r) > toolsThreshold)
    /\ calls' = [calls EXCEPT ![r].pc = "loop", ![r].k = r[1]]
    /\ UNCHANGED <<entries, mu, pc, visits>>
    /\ ToolsFrame

\* The loop body up to db.Upsert's db.mu.Lock(): the goroutine of the leaf,
\* named by the leaf's first position, takes the writer mutex (no reader
\* holds the lock while main is in tools2DB).
ToolsLock(r) ==
    /\ CallAt(r).pc = "loop"
    /\ calls[r].k <= r[2]
    /\ WriterMutexFree(mu)
    /\ mu' = [mu EXCEPT !.writer = r[1]]
    /\ calls' = [calls EXCEPT ![r].pc = "UpsertBody"]
    /\ UNCHANGED <<entries, pc, visits>>
    /\ ToolsFrame

\* Upsert: the search; the overwrite of a present ID, or slices.Insert up to
\* the slice it returns.
ToolsUpsertSearch(r) ==
    /\ CallAt(r).pc = "UpsertBody"
    /\ LET entry == ToolEntry(tools[calls[r].k])
       IN  IF search(entries, entry.ID).ok
           THEN /\ entries' = UpsertEntries(entries, entry)
                /\ calls' = [calls EXCEPT ![r].pc = "Unlock"]
           ELSE /\ calls' = [calls EXCEPT ![r].pc = "UpsertAssign", ![r].s = entries]
                /\ UNCHANGED entries
    /\ UNCHANGED <<mu, pc, visits>>
    /\ ToolsFrame

\* Upsert: db.entries = (the slice slices.Insert returns).
ToolsUpsertAssign(r) ==
    /\ CallAt(r).pc = "UpsertAssign"
    /\ entries' = UpsertEntries(calls[r].s, ToolEntry(tools[calls[r].k]))
    /\ calls' = [calls EXCEPT ![r].pc = "Unlock", ![r].s = <<>>]
    /\ UNCHANGED <<mu, pc, visits>>
    /\ ToolsFrame

\* defer db.mu.Unlock(): Upsert returns and the loop goes to the next tool.
ToolsUnlock(r) ==
    /\ CallAt(r).pc = "Unlock"
    /\ mu' = [mu EXCEPT !.writer = 0]
    /\ calls' = [calls EXCEPT ![r].pc = "loop", ![r].k = @ + 1]
    /\ visits' = [visits EXCEPT ![calls[r].k] = @ + 1]
    /\ UNCHANGED <<entries, pc>>
    /\ ToolsFrame

\* The loop ends: the call returns.
ToolsLeafReturn(r) ==
    /\ CallAt(r).pc = "loop"
    /\ calls[r].k > r[2]
    /\ calls' = [calls EXCEPT ![r].pc = "returned"]
    /\ UNCHANGED <<entries, mu, pc, visits>>
    /\ ToolsFrame

\* tools2DB returns to main.
ToolsReturn ==
    /\ pc[Caller] = "Tools2DB"
    /\ CallAt(<<1, Len(tools)>>).pc = "returned"
    /\ calls' = Ended(calls, <<1, Len(tools)>>)
    /\ pc' = [pc EXCEPT ![Caller] = "Tools2DBDone"]
    /\ UNCHANGED <<entries, mu, visits>>
    /\ ToolsFrame

NextTools ==
    \/ ToolsEnter
    \/ \E r \in ToolRanges :
          \/ ToolsFork(r)
          \/ ToolsCallRight(r)
          \/ ToolsRightReturns(r)
          \/ ToolsGoDone(r)
          \/ ToolsWait(r)
          \/ ToolsLoop(r)
          \/ ToolsLock(r)
          \/ ToolsUpsertSearch(r)
          \/ ToolsUpsertAssign(r)
          \/ ToolsUnlock(r)
          \/ ToolsLeafReturn(r)
    \/ ToolsReturn

SpecTools == InitTools /\ [][NextTools]_vars

\* The names of the tools.
NamesOf(ts) == { ts[i] : i \in 1..Len(ts) }

\* The tools have pairwise distinct names.
DistinctNames(ts) == Cardinality(NamesOf(ts)) = Len(ts)

\* C33: tools2DB returns only after every tool of its input has been upserted
\* by some goroutine; for tools with pairwise distinct names, the store then
\* holds exactly one entry per tool name, sorted by ID, whatever the
\* interleaving of the concurrent Upsert calls.
C33_Tools2DBUpsertsEveryTool ==
    pc[Caller] = "Tools2DBDone" =>
        /\ calls = NoCalls
        /\ mu.writer = 0
        /\ \A i \in 1..Len(tools) : visits[i] = 1
        /\ DistinctNames(tools) =>
              /\ Len(entries) = Len(tools)
              /\ IDsOf(entries) = NamesOf(tools)
              /\ StrictlySorted(entries)
              /\ \A i \in 1..Len(entries) : entries[i] = ToolEntry(entries[i].ID)

\* tools2DB has returned to main after five tools with distinct names, given
\* in descending order, were upserted by three leaves.
C33_Witness ==
    /\ pc[Caller] = "Tools2DBDone"
    /\ Len(tools) = 5 /\ DistinctNames(tools)
    /\ tools[1] = 5 /\ tools[5] = 1
    /\ Len(entries) = 5

====
